---- MODULE Spec2Model ----
(***************************************************************************)
(* Model of the image transformation service of src/img: the Service       *)
(* (service.go) with its request handlers, the round-robin cursor and the  *)
(* pool of Queues (queue.go), each Queue being an unbuffered channel read  *)
(* by one worker goroutine.                                                *)
(*                                                                         *)
(* Go strings are modelled as sequences of one-character strings, so that  *)
(* the regular expressions of the handlers are computed character by       *)
(* character; the empty string is << >>.                                   *)
(***************************************************************************)
EXTENDS Integers, Sequences, FiniteSets, TLC

(* ------------------------------ bounds -------------------------------- *)

\* Number of HTTP requests (handler goroutines) of a run of Spec.
MaxReq == 3
\* Largest procNum handed to NewService.
MaxProcs == 2
\* Longest size string of the requests of SpecReq.
MaxLen == 3
\* The connections over which a burst of requests arrives.
MaxConn == 2
\* The times a request of SpecWake tests Finished after a Wait that returned
\* and finds it false.
MaxWake == 1

(* ------------------------------ strings ------------------------------- *)

S_on == <<"o", "n">>
S_off == <<"o", "f", "f">>
S_hide == <<"h", "i", "d", "e">>
S_png == <<"p", "n", "g">>
S_text == <<"text/plain; charset=utf-8">>
S_webp == <<"image/webp">>
S_avif == <<"image/avif">>
S_https == <<"h", "t", "t", "p", "s">>
S_http == <<"h", "t", "t", "p">>

Digits == {"0", "1", "2", "3", "4", "5", "6", "7", "8", "9"}

\* The class \d of Go's regexp (RE2): ASCII digits only.
IsDigit(c) == c \in Digits

\* The position after the longest run of digits of s that starts at i: \d*
\* (greedy; the run cannot overlap an 'x', so no backtracking is needed).
RECURSIVE SkipDigits(_, _)
SkipDigits(s, i) ==
    IF i <= Len(s) /\ IsDigit(s[i]) THEN SkipDigits(s, i + 1) ELSE i

\* The pattern without its anchors matches every string.
MatchUnanchored(s) == TRUE

\* regexp.MatchString(`^\d*[x]?\d*$`, size) of ResizeUrl.
MatchResizeSize(s) ==
    LET i == SkipDigits(s, 1)
        j == IF i <= Len(s) /\ s[i] = "x" THEN i + 1 ELSE i
        k == SkipDigits(s, j)
    IN  k = Len(s) + 1

\* The pattern of ResizeUrl used for fit: the 'x' optional.
MatchFitSizeLoose(s) ==
    LET i == SkipDigits(s, 1)
        j == IF i <= Len(s) /\ s[i] = "x" THEN i + 1 ELSE i
    IN  SkipDigits(s, j) = Len(s) + 1

\* regexp.MatchString(`^\d*[x]\d*$`, size) of FitToSizeUrl.
MatchFitSize(s) ==
    LET i == SkipDigits(s, 1)
    IN  /\ i <= Len(s)
        /\ s[i] = "x"
        /\ SkipDigits(s, i + 1) = Len(s) + 1

\* strconv.Itoa for the non-negative lengths of addHeaders.
DigitChar(d) == <<"0", "1", "2", "3", "4", "5", "6", "7", "8", "9">>[d + 1]

RECURSIVE Itoa(_)
Itoa(n) == IF n < 10 THEN <<DigitChar(n)>> ELSE Itoa(n \div 10) \o <<DigitChar(n % 10)>>

(* ------------------------------ data ---------------------------------- *)

\* Quality: DEFAULT = 1 + iota, LOW.
DEFAULT == 1
LOW == 2

\* var CacheTTL int: the zero value unless the embedding program sets it.
CacheTTL == 0

\* var emptyGif: the 1x1 transparent GIF written by the hide override.
emptyGif ==
    <<71, 73, 70, 56, 57, 97, 1, 0, 1, 0, 0, 0, 0, 33, 249, 4, 1, 10, 0, 1, 0,
      44, 0, 0, 0, 0, 1, 0, 1, 0, 0, 2, 2, 76, 1, 0, 59>>

\* A *Image: nil, or an image with its Id, its bytes and its MIME type.
NilImage == [nil |-> TRUE]
Image(id, data, mime) == [nil |-> FALSE, Id |-> id, Data |-> data, MimeType |-> mime]

\* An error value: nil, or an error with its message.
NilErr == "nil"
LoadErr == "load failed"
TransformErr == "transform failed"

\* The HTTP operations of GetRouter.
Ops == {"resize", "fit", "optimise", "asis"}

\* The image URLs of the requests. What the Loader and the Processor answer
\* is a matter of the image asked for: one that loads and transforms (with
\* or without a MIME type), one the Processor fails on, one the Processor
\* answers (nil, nil) for, one the Loader fails on, one the Loader answers
\* (nil, nil) for; a scheme-relative URL, which the Loader fails on, and the
\* absolute URL made of it, which loads; and the empty URL.
U_png == <<"p">>
U_raw == <<"r">>
U_bad == <<"b">>
U_void == <<"v">>
U_err == <<"e">>
U_nil == <<"n">>
U_rel == <<"/", "/", "p">>
U_abs == S_https \o <<":">> \o U_rel
U_empty == << >>

\* An http.Request, as far as the handlers read it: the route, the imgUrl
\* path variable, the values of the "size" and "save-data" query parameters
\* and the values of the Save-Data, Accept and X-Forwarded-Proto headers.
Request(op, imgUrl, size, sd, hdr, accept, proto) ==
    [op |-> op, imgUrl |-> imgUrl, size |-> size, saveData |-> sd, SaveData |-> hdr,
     Accept |-> accept, XForwardedProto |-> proto]

\* The first value of a parameter, however many times it is given.
getQueryParamFirst(values) == IF Len(values) > 0 THEN values[1] ELSE << >>

\* getQueryParam: the value of a parameter given exactly once, else "".
getQueryParam(values) == IF Len(values) = 1 THEN values[1] ELSE << >>

\* http.Header.Get: the first value of the header, else "".
HeaderGet(values) == IF Len(values) > 0 THEN values[1] ELSE << >>

\* strings.HasPrefix
HasPrefix(s, prefix) ==
    Len(s) >= Len(prefix) /\ SubSeq(s, 1, Len(prefix)) = prefix

\* getImgUrl: a URL that starts with "//" is given the scheme of the
\* X-Forwarded-Proto header when the header has exactly one value.
getImgUrl(r) ==
    IF Len(r.imgUrl) = 0
    THEN << >>
    ELSE IF HasPrefix(r.imgUrl, <<"/", "/">>) /\ Len(r.XForwardedProto) = 1
         THEN r.XForwardedProto[1] \o <<":">> \o r.imgUrl
         ELSE r.imgUrl

\* strings.Split(s, ","): the pieces of s between its commas, one more than
\* the commas; the empty string gives one empty piece.
RECURSIVE Split(_)
Split(s) ==
    IF \A i \in 1 .. Len(s) : s[i] # ","
    THEN <<s>>
    ELSE LET i == CHOOSE k \in 1 .. Len(s) :
                      s[k] = "," /\ \A j \in 1 .. k - 1 : s[j] # ","
         IN  <<SubSeq(s, 1, i - 1)>> \o Split(SubSeq(s, i + 1, Len(s)))

\* The white space of strings.TrimSpace (unicode.IsSpace): in Latin-1 the
\* characters \t, \n, \v, \f, \r, space, U+0085 and U+00A0, and beyond it the
\* characters of category Z and property Pattern_White_Space. A character
\* with no escape in a TLA+ string is written as its code point.
WhiteSpace ==
    {"\t", "\n", "U+000B", "\f", "\r", " ", "U+0085", "U+00A0", "U+1680", "U+2000",
     "U+2001", "U+2002", "U+2003", "U+2004", "U+2005", "U+2006", "U+2007", "U+2008",
     "U+2009", "U+200A", "U+2028", "U+2029", "U+202F", "U+205F", "U+3000"}

IsSpace(c) == c \in WhiteSpace

\* strings.TrimSpace: leading and trailing white space removed.
RECURSIVE TrimSpace(_)
TrimSpace(s) ==
    IF Len(s) > 0 /\ IsSpace(s[1]) THEN TrimSpace(Tail(s))
    ELSE IF Len(s) > 0 /\ IsSpace(s[Len(s)]) THEN TrimSpace(SubSeq(s, 1, Len(s) - 1))
    ELSE s

\* getSupportedFormats: the first Accept value split at its commas, each
\* piece trimmed; no Accept header gives the empty list.
getSupportedFormats(r) ==
    IF Len(r.Accept) > 0
    THEN LET accepts == Split(r.Accept[1])
         IN  [i \in 1 .. Len(accepts) |-> TrimSpace(accepts[i])]
    ELSE << >>

getQualityNoOptOut(enabled, r) ==
    IF enabled
    THEN IF HeaderGet(r.SaveData) = S_on THEN LOW ELSE DEFAULT
    ELSE DEFAULT

\* getQuality
getQuality(enabled, r) ==
    IF enabled
    THEN LET saveDataParam == getQueryParam(r.saveData)
             saveDataHeader == HeaderGet(r.SaveData)
         IN  IF saveDataHeader = S_on /\ saveDataParam # S_off THEN LOW ELSE DEFAULT
    ELSE DEFAULT

\* The two override values of the parameter taken for one another.
HideOnSaveDataOff(r) ==
    HeaderGet(r.SaveData) = S_on /\ getQueryParam(r.saveData) = S_off

\* The hide test of transformUrl, reached only when SaveDataEnabled.
HideOnSaveData(r) ==
    HeaderGet(r.SaveData) = S_on /\ getQueryParam(r.saveData) = S_hide

(* ------------------------------ responses ----------------------------- *)

\* What was written to a response body: nothing, the bytes of an image, or the
\* text of an error message.
NoBody == [kind |-> "none"]
Bytes(data) == [kind |-> "bytes", data |-> data]
Text(msg) == [kind |-> "text", msg |-> msg]

\* An http.ResponseWriter: status 0 while no header has been written; each
\* header holds the list of values added to it.
NewResp ==
    [status |-> 0, Vary |-> << >>, ContentType |-> << >>, ContentLength |-> << >>,
     CacheControl |-> << >>, body |-> NoBody, panicked |-> FALSE]

\* http.Error(resp, msg, code): Content-Type is replaced, the status and the
\* message are written.
HttpError(w, msg, code) ==
    [w EXCEPT !.ContentType = <<S_text>>,
              !.status = code, !.body = Text(msg)]

\* resp.Write(data) on a response with no status yet: an implicit 200.
RespWrite(w, data) ==
    [w EXCEPT !.status = IF w.status = 0 THEN 200 ELSE w.status, !.body = Bytes(data)]

\* A nil dereference in a handler goroutine: net/http recovers the panic and
\* drops the connection, nothing more is written.
Panic(w) == [w EXCEPT !.panicked = TRUE]

\* addHeaders
addHeaders(w, image) ==
    LET w1 == IF Len(image.MimeType) # 0
              THEN [w EXCEPT !.ContentType = Append(@, image.MimeType)]
              ELSE w
    IN  [w1 EXCEPT !.ContentLength = Append(@, Itoa(Len(image.Data))),
                   !.CacheControl = Append(@, <<"public, max-age=">> \o Itoa(CacheTTL))]

\* writeResult
writeResult(w, op) ==
    IF op.Err # NilErr
    THEN HttpError(w, <<"Error transforming image: ", op.Err>>, 500)
    ELSE IF op.Result = NilImage
         THEN Panic(w)
         ELSE RespWrite(addHeaders(w, op.Result), op.Result.Data)

\* The callback execOp passes to AddAndWait: the log line reads
\* op.Config.Src.Id, a nil dereference when the Command has no source image,
\* and then writeResult(op).
callback(w, op) ==
    IF op.Config.Src = NilImage THEN Panic(w) ELSE writeResult(w, op)

(* ------------------------------ commands ------------------------------ *)

\* No *Command: the request has not built one.
NoCmd == [none |-> TRUE]

\* A Command as the handlers build it: Finished false, Err nil.
Command(transformation, config, result) ==
    [Transformation |-> transformation, Config |-> config, Result |-> result,
     Finished |-> FALSE, Err |-> NilErr]

\* A TransformationConfig; Size is << >> where no ResizeConfig is passed.
TransformationConfig(src, formats, quality, size) ==
    [Src |-> src, SupportedFormats |-> formats, Quality |-> quality, Size |-> size]

\* Loader.Load(imgUrl, ctx): (*Image, error). The bytes of an image tell
\* whether the Processor fails on it.
GoodData == <<1, 2>>
BadData == <<0>>
VoidData == << >>
OutData == <<3>>

Load(imgUrl) ==
    CASE imgUrl = U_png -> [img |-> Image(imgUrl, GoodData, S_png), err |-> NilErr]
      [] imgUrl = U_abs -> [img |-> Image(imgUrl, GoodData, S_png), err |-> NilErr]
      [] imgUrl = U_raw -> [img |-> Image(imgUrl, GoodData, << >>), err |-> NilErr]
      [] imgUrl = U_bad -> [img |-> Image(imgUrl, BadData, S_png), err |-> NilErr]
      [] imgUrl = U_void -> [img |-> Image(imgUrl, VoidData, S_png), err |-> NilErr]
      [] imgUrl = U_err -> [img |-> NilImage, err |-> LoadErr]
      [] imgUrl = U_rel -> [img |-> NilImage, err |-> LoadErr]
      [] OTHER -> [img |-> NilImage, err |-> NilErr]

\* Processor.Resize, FitToSize, Optimise: (*Image, error). An image comes
\* out no longer than the source, in one of the formats the client supports
\* that the Processor writes, or with no MIME type: the source's format is
\* kept, as it always is when the client names no format.
TransformOk(mime) == [img |-> Image(<< >>, OutData, mime), err |-> NilErr]
TransformFailed == [img |-> NilImage, err |-> TransformErr]
TransformNothing == [img |-> NilImage, err |-> NilErr]

\* The MIME types of the images the Processor writes for a config.
OutputFormats(config) ==
    {<< >>} \cup {config.SupportedFormats[i] : i \in
                     {j \in 1 .. Len(config.SupportedFormats) :
                         config.SupportedFormats[j] \in {S_webp, S_avif}}}

\* What a Processor does with a nil source is not known: any of its answers.
TransformResults(config) ==
    IF config.Src = NilImage
    THEN {TransformOk(m) : m \in OutputFormats(config)} \cup {TransformFailed, TransformNothing}
    ELSE CASE config.Src.Data = BadData -> {TransformFailed}
           [] config.Src.Data = VoidData -> {TransformNothing}
           [] OTHER -> {TransformOk(m) : m \in OutputFormats(config)}

(* ------------------------------ handlers ------------------------------ *)

\* A handler runs in two parts, with the call of Loader.Load between them.
\* The first part, from the arrival of the request, ends when the handler
\* returns or when it calls Load; its value is the response so far and, for
\* a call of Load, the locals the handler keeps across it: the imgUrl passed
\* to Load, the transformation and the size. The second part, from the return
\* of Load, ends when the handler returns or calls execOp; its value is the
\* response so far and the Command passed to execOp (NoCmd: the handler
\* returned).

NoFrame == [none |-> TRUE]

Frame(fn, imgUrl, transformation, size) ==
    [fn |-> fn, imgUrl |-> imgUrl, transformation |-> transformation, size |-> size]

Returned(w) == [resp |-> w, frame |-> NoFrame]

Loading(w, fr) == [resp |-> w, frame |-> fr]

\* transformUrl with the Vary value of the enabled feature in both branches.
transformUrlOneVary(enabled, rq, transformation, size) ==
    IF Len(getImgUrl(rq)) = 0
    THEN Returned(HttpError(NewResp, <<"url param is required">>, 400))
    ELSE LET w1 == [NewResp EXCEPT !.Vary = Append(@, <<"Accept, Save-Data">>)]
         IN  IF enabled /\ HideOnSaveData(rq)
             THEN Returned(RespWrite(w1, emptyGif))
             ELSE Loading(w1, Frame("transformUrl", getImgUrl(rq), transformation, size))

\* transformUrl, to its call of r.Loader.Load.
transformUrl(enabled, rq, transformation, size) ==
    IF Len(getImgUrl(rq)) = 0
    THEN Returned(HttpError(NewResp, <<"url param is required">>, 400))
    ELSE LET w1 == IF enabled
                   THEN [NewResp EXCEPT !.Vary = Append(@, <<"Accept, Save-Data">>)]
                   ELSE [NewResp EXCEPT !.Vary = Append(@, <<"Accept">>)]
         IN  IF enabled /\ HideOnSaveData(rq)
             THEN Returned(RespWrite(w1, emptyGif))
             ELSE Loading(w1, Frame("transformUrl", getImgUrl(rq), transformation, size))

LoadFailedNever(ld) == FALSE

\* The test err != nil on what Loader.Load answered.
LoadFailed(ld) == ld.err # NilErr

\* transformUrl, from the return of r.Loader.Load: ld is what Load answered.
transformUrlLoaded(enabled, rq, w, fr, ld) ==
    IF LoadFailed(ld)
    THEN [resp |-> HttpError(w, <<"Error reading image: ", ld.err>>, 500), op |-> NoCmd]
    ELSE [resp |-> w,
          op |-> Command(fr.transformation,
                         TransformationConfig(ld.img, getSupportedFormats(rq),
                                              getQuality(enabled, rq), fr.size),
                         NilImage)]

\* ResizeUrl
ResizeUrl(enabled, rq) ==
    LET size == getQueryParam(rq.size)
    IN  IF Len(size) = 0
        THEN Returned(HttpError(NewResp, <<"size param is required">>, 400))
        ELSE IF ~MatchResizeSize(size)
             THEN Returned(HttpError(NewResp, <<"size param should be in format WxH">>, 400))
             ELSE transformUrl(enabled, rq, "Resize", size)

\* FitToSizeUrl
FitToSizeUrl(enabled, rq) ==
    LET size == getQueryParam(rq.size)
    IN  IF Len(size) = 0
        THEN Returned(HttpError(NewResp, <<"size param is required">>, 400))
        ELSE IF ~MatchFitSize(size)
             THEN Returned(HttpError(NewResp, <<"size param should be in format WxH">>, 400))
             ELSE transformUrl(enabled, rq, "FitToSize", size)

\* OptimiseUrl
OptimiseUrl(enabled, rq) == transformUrl(enabled, rq, "Optimise", << >>)

\* AsIs, to its call of r.Loader.Load.
AsIs(rq) ==
    IF Len(getImgUrl(rq)) = 0
    THEN Returned(HttpError(NewResp, <<"url param is required">>, 400))
    ELSE Loading(NewResp, Frame("AsIs", getImgUrl(rq), "nil", << >>))

\* AsIs with the MIME type read from a non-nil result only: a Load that
\* answers (nil, nil) goes on to execOp.
AsIsLoadedNilSafe(w, fr, ld) ==
    IF LoadFailed(ld)
    THEN [resp |-> HttpError(w, <<"Error reading image: ", ld.err>>, 500), op |-> NoCmd]
    ELSE LET w1 == IF ld.img # NilImage /\ Len(ld.img.MimeType) > 0
                   THEN [w EXCEPT !.ContentType = Append(@, ld.img.MimeType)]
                   ELSE w
         IN  [resp |-> w1,
              op |-> Command("nil",
                             TransformationConfig(Image(fr.imgUrl, << >>, << >>), << >>, 0, << >>),
                             ld.img)]

\* AsIs, from the return of r.Loader.Load. A Load that answers (nil, nil)
\* makes result.MimeType a nil dereference: the handler panics before it
\* builds a Command.
AsIsLoaded(w, fr, ld) ==
    IF LoadFailed(ld)
    THEN [resp |-> HttpError(w, <<"Error reading image: ", ld.err>>, 500), op |-> NoCmd]
    ELSE IF ld.img = NilImage
         THEN [resp |-> Panic(w), op |-> NoCmd]
         ELSE LET w1 == IF Len(ld.img.MimeType) > 0
                        THEN [w EXCEPT !.ContentType = Append(@, ld.img.MimeType)]
                        ELSE w
              IN  [resp |-> w1,
                   op |-> Command("nil",
                                  TransformationConfig(Image(fr.imgUrl, << >>, << >>), << >>, 0, << >>),
                                  ld.img)]

\* The route table of GetRouter.
Route(enabled, rq) ==
    CASE rq.op = "resize" -> ResizeUrl(enabled, rq)
      [] rq.op = "fit" -> FitToSizeUrl(enabled, rq)
      [] rq.op = "optimise" -> OptimiseUrl(enabled, rq)
      [] rq.op = "asis" -> AsIs(rq)

\* The handler whose frame it is, from the return of its call of Load.
RouteLoaded(enabled, rq, w, fr, ld) ==
    IF fr.fn = "AsIs"
    THEN AsIsLoaded(w, fr, ld)
    ELSE transformUrlLoaded(enabled, rq, w, fr, ld)

(* ------------------------------ state --------------------------------- *)

VARIABLES
    SaveDataEnabled,  \* the package variable SaveDataEnabled
    req,              \* the requests the server receives, by goroutine
    srv,              \* "new" before NewService, then "ok" or "error"
    arg,              \* the procNum NewService was called with
    Q,                \* Service.Q: per lane, its worker's position and Command
    currProc,         \* Service.currProc
    currProcMux,      \* Service.currProcMux: 0 when free, else its holder
    pc,               \* position of each request's goroutine
    frame,            \* the locals of each handler across its call of Load
    resp,             \* the http.ResponseWriter of each request
    cmd,              \* the Command of each request (NoCmd before execOp)
    procIdx,          \* the lane getQueue returned to each request (-1: none)
    crashed,          \* a worker goroutine panicked: the process is gone
    count,            \* per request: calls of Load, calls and returns of the
                      \* transformation, writes of Finished, Signals, callbacks,
                      \* Waits entered again after a Wait that returned
    order,            \* the requests in the order they left getQueue
    taken             \* per lane, the requests in the order its worker took them

vars ==
    <<SaveDataEnabled, req, srv, arg, Q, currProc, currProcMux, pc, frame, resp, cmd, procIdx,
      crashed, count, order, taken>>

Reqs == DOMAIN req
Lanes == DOMAIN Q

\* len(r.Q)
LenQ == Cardinality(DOMAIN Q)

\* The procNum values NewService is called with.
ProcNums == -1 .. MaxProcs

NoCount ==
    [loads |-> 0, calls |-> 0, returns |-> 0, sets |-> 0, signals |-> 0,
     callbacks |-> 0, rewaits |-> 0]

S_5x5 == <<"5", "x", "5">>
S_5 == <<"5">>

S_accept == <<"image/webp", ",", " ", "image/png">>

\* The kinds of request of a run of Spec, in a fixed order: served as is,
\* transformed, failed by the Processor, failing validation, answered
\* (nil, nil) by the Processor, served as is without a MIME type,
\* transformed from a scheme-relative URL behind a proxy for a client that
\* accepts WebP, failed by the Loader, answered by the hide override, served
\* as is with a Loader that answers (nil, nil).
Workload ==
    << Request("asis", U_png, << >>, << >>, << >>, << >>, << >>),
       Request("resize", U_png, <<S_5x5>>, << >>, <<S_on>>, << >>, << >>),
       Request("optimise", U_bad, << >>, << >>, << >>, << >>, << >>),
       Request("fit", U_png, <<S_5>>, << >>, << >>, << >>, << >>),
       Request("optimise", U_void, << >>, << >>, << >>, << >>, << >>),
       Request("asis", U_raw, << >>, << >>, << >>, << >>, << >>),
       Request("fit", U_rel, <<S_5x5>>, <<S_off>>, <<S_on>>, <<S_accept>>, <<S_https>>),
       Request("resize", U_err, <<S_5>>, << >>, << >>, << >>, << >>),
       Request("optimise", U_png, << >>, <<S_hide>>, <<S_on>>, << >>, << >>),
       Request("asis", U_nil, << >>, << >>, << >>, << >>, << >>) >>

InitRest ==
    /\ srv = "new"
    /\ arg = 0
    /\ Q = << >>
    /\ currProc = 0
    /\ currProcMux = 0
    /\ pc = [r \in Reqs |-> "idle"]
    /\ frame = [r \in Reqs |-> NoFrame]
    /\ resp = [r \in Reqs |-> NewResp]
    /\ cmd = [r \in Reqs |-> NoCmd]
    /\ procIdx = [r \in Reqs |-> -1]
    /\ crashed = FALSE
    /\ count = [r \in Reqs |-> NoCount]
    /\ order = << >>
    /\ taken = << >>

\* MaxReq requests of consecutive kinds of Workload, from any first kind;
\* SaveDataEnabled keeps its declared value.
Init ==
    /\ SaveDataEnabled = TRUE
    /\ \E first \in DOMAIN Workload :
          req = [r \in 1 .. MaxReq |-> Workload[((first + r - 2) % Len(Workload)) + 1]]
    /\ InitRest

(* ------------------------------ NewService ---------------------------- *)

\* NewQueue: the channel is empty and the worker waits on it.
NewQueue == [pc |-> "recv", op |-> 0]

ValidProcNumFromZero(procNum) == ~(procNum < 0)

\* NewService: the test of procNum, negated.
ValidProcNum(procNum) == ~(procNum <= 0)

\* NewService with the cursor left on the last lane.
NewServiceFromLast(procNum) ==
    /\ srv = "new"
    /\ arg' = procNum
    /\ IF ~ValidProcNum(procNum)
       THEN /\ srv' = "error"
            /\ currProc' = 0
            /\ UNCHANGED <<Q, taken>>
       ELSE /\ srv' = "ok"
            /\ Q' = [i \in 0 .. procNum - 1 |-> NewQueue]
            /\ taken' = [i \in 0 .. procNum - 1 |-> << >>]
            /\ currProc' = procNum - 1
    /\ UNCHANGED <<SaveDataEnabled, req, frame, currProcMux, pc, resp, cmd, procIdx, crashed,
                   count, order>>

\* NewService(r, p, procNum)
NewService(procNum) ==
    /\ srv = "new"
    /\ arg' = procNum
    /\ IF ~ValidProcNum(procNum)
       THEN /\ srv' = "error"
            /\ UNCHANGED <<Q, taken>>
       ELSE /\ srv' = "ok"
            /\ Q' = [i \in 0 .. procNum - 1 |-> NewQueue]
            /\ taken' = [i \in 0 .. procNum - 1 |-> << >>]
    /\ currProc' = 0
    /\ UNCHANGED <<SaveDataEnabled, req, frame, currProcMux, pc, resp, cmd, procIdx, crashed,
                   count, order>>

Running == srv = "ok" /\ ~crashed

(* ------------------------------ requests ------------------------------ *)

\* The connection a request arrives on. net/http serves the requests of one
\* connection one after the other, each handler called when the one before
\* has returned. Up to MaxReq requests come each on its own connection; a
\* longer run of requests comes over MaxConn connections.
Conn(r) ==
    IF Cardinality(Reqs) <= MaxReq THEN r ELSE ((r - 1) % MaxConn) + 1

Ready(r) == \A q \in Reqs : (q < r /\ Conn(q) = Conn(r)) => pc[q] = "done"

\* The first part of a handler, from the arrival of the request to its
\* return or to its call of r.Loader.Load, which the goroutine then waits for.
Handle(r) ==
    /\ Running
    /\ pc[r] = "idle"
    /\ Ready(r)
    /\ LET h == Route(SaveDataEnabled, req[r])
       IN  /\ resp' = [resp EXCEPT ![r] = h.resp]
           /\ frame' = [frame EXCEPT ![r] = h.frame]
           /\ count' = [count EXCEPT ![r].loads = IF h.frame = NoFrame THEN @ ELSE @ + 1]
           /\ pc' = [pc EXCEPT ![r] = IF h.frame = NoFrame THEN "done" ELSE "load"]
    /\ UNCHANGED <<SaveDataEnabled, req, srv, arg, Q, currProc, currProcMux, cmd, procIdx,
                   crashed, order, taken>>

\* Loader.Load returns and the second part of the handler runs, to its
\* return or to its call of execOp with the Command it built.
Loaded(r) ==
    /\ Running
    /\ pc[r] = "load"
    /\ LET h == RouteLoaded(SaveDataEnabled, req[r], resp[r], frame[r], Load(frame[r].imgUrl))
       IN  /\ resp' = [resp EXCEPT ![r] = h.resp]
           /\ cmd' = [cmd EXCEPT ![r] = h.op]
           /\ pc' = [pc EXCEPT ![r] = IF h.op = NoCmd THEN "done" ELSE "execOp"]
    /\ UNCHANGED <<SaveDataEnabled, req, frame, srv, arg, Q, currProc, currProcMux, procIdx,
                   crashed, count, order, taken>>

WrapPast(c, n) == IF c > n THEN 0 ELSE c

WrapEarly(c, n) == IF c >= n - 1 THEN 0 ELSE c

\* getQueue: the wrap of the cursor after its increment.
Wrap(c, n) == IF c = n THEN 0 ELSE c

\* getQueue, first half: currProcMux.Lock(); currProc++
GetQueueLock(r) ==
    /\ Running
    /\ pc[r] = "execOp"
    /\ currProcMux = 0
    /\ currProcMux' = r
    /\ currProc' = currProc + 1
    /\ pc' = [pc EXCEPT ![r] = "getQueue"]
    /\ UNCHANGED <<SaveDataEnabled, req, frame, srv, arg, Q, resp, cmd, procIdx, crashed,
                   count, order, taken>>

\* getQueue returning with the mutex still held.
GetQueueKeepsMux(r) ==
    /\ Running
    /\ pc[r] = "getQueue"
    /\ currProcMux = r
    /\ currProc' = Wrap(currProc, LenQ)
    /\ procIdx' = [procIdx EXCEPT ![r] = currProc']
    /\ order' = Append(order, r)
    /\ pc' = [pc EXCEPT ![r] = "send"]
    /\ UNCHANGED <<SaveDataEnabled, req, frame, srv, arg, Q, currProcMux, resp, cmd, crashed, count,
                   taken>>

\* getQueue, second half: the wrap, procIdx := currProc, currProcMux.Unlock();
\* the goroutine goes on to the send of AddAndWait.
GetQueueUnlock(r) ==
    /\ Running
    /\ pc[r] = "getQueue"
    /\ currProcMux = r
    /\ currProc' = Wrap(currProc, LenQ)
    /\ procIdx' = [procIdx EXCEPT ![r] = currProc']
    /\ currProcMux' = 0
    /\ order' = Append(order, r)
    /\ pc' = [pc EXCEPT ![r] = "send"]
    /\ UNCHANGED <<SaveDataEnabled, req, frame, srv, arg, Q, resp, cmd, crashed, count, taken>>

\* Wait before the first test of Finished.
LeaveWaitAfterWake(finished, woken) == finished /\ woken

\* An if in place of the for: a Wait that returned is not followed by a test.
LeaveWaitOnce(finished, woken) == finished \/ woken

\* The loop test of AddAndWait, made under FinishedCond.L: leave the loop
\* when Finished, else Wait (which releases L and parks the goroutine).
\* woken: the test follows a Wait that returned.
LeaveWait(finished, woken) == finished

\* AddAndWait after the send: L.Lock() (or L re-acquired by a Wait that
\* returned), the loop test, and then either Wait or L.Unlock().
Check(r) ==
    /\ Running
    /\ pc[r] \in {"lock", "woken"}
    /\ LET leave == LeaveWait(cmd[r].Finished, pc[r] = "woken")
       IN  /\ pc' = [pc EXCEPT ![r] = IF leave THEN "callback" ELSE "waiting"]
           /\ count' = [count EXCEPT ![r].rewaits =
                                         IF ~leave /\ pc[r] = "woken" THEN @ + 1 ELSE @]
    /\ UNCHANGED <<SaveDataEnabled, req, frame, srv, arg, Q, currProc, currProcMux, resp, cmd,
                   procIdx, crashed, order, taken>>

\* Not a step of the program: op.FinishedCond.Wait() returns with no Signal
\* from the lane's worker. sync.Cond.Wait of Go returns only when a Signal or
\* a Broadcast wakes it, and the worker's only Signal follows the write of
\* Finished (queue.go 21-25), so the program never takes this step and no
\* state that needs it is a state of the program. It is the hypothesis of
\* the specification's guarded-wait requirement (a wait that may return
\* spuriously), and a step of SpecWake alone; Spec, SpecReq, SpecBurst and
\* SpecLive do not have it.
SpuriousWake(r) ==
    /\ Running
    /\ pc[r] = "waiting"
    /\ count[r].rewaits < MaxWake
    /\ pc' = [pc EXCEPT ![r] = "woken"]
    /\ UNCHANGED <<SaveDataEnabled, req, frame, srv, arg, Q, currProc, currProcMux, resp, cmd,
                   procIdx, crashed, count, order, taken>>

\* AddAndWait: callback(), which writes the response; execOp and the handler
\* return.
Callback(r) ==
    /\ Running
    /\ pc[r] = "callback"
    /\ resp' = [resp EXCEPT ![r] = callback(resp[r], cmd[r])]
    /\ count' = [count EXCEPT ![r].callbacks = @ + 1]
    /\ pc' = [pc EXCEPT ![r] = "done"]
    /\ UNCHANGED <<SaveDataEnabled, req, frame, srv, arg, Q, currProc, currProcMux, cmd, procIdx,
                   crashed, order, taken>>

(* ------------------------------ lane workers -------------------------- *)

CanTakeAnyLane(l, r) == Q[l].pc = "recv" /\ pc[r] = "send"

CanTakeBusy(l, r) == pc[r] = "send" /\ procIdx[r] = l

\* The channel is unbuffered: q.ops <- op of request r and the receive of
\* the worker's range loop happen together. Any goroutine that has reached
\* the send on this lane's channel may be the one received from.
CanTake(l, r) == Q[l].pc = "recv" /\ pc[r] = "send" /\ procIdx[r] = l

NeedsCallAlways(op) == TRUE

\* start: the test op.Result == nil.
NeedsCall(op) == op.Result = NilImage

\* The worker marks the Command Finished as it takes it.
TakeMarksFinished(l, r) ==
    /\ Running
    /\ CanTake(l, r)
    /\ taken' = [taken EXCEPT ![l] = Append(@, r)]
    /\ pc' = [pc EXCEPT ![r] = "lock"]
    /\ cmd' = [cmd EXCEPT ![r].Finished = TRUE]
    /\ IF NeedsCall(cmd[r])
       THEN /\ Q' = [Q EXCEPT ![l] = [pc |-> "call", op |-> r]]
            /\ count' = [count EXCEPT ![r].calls = @ + 1]
            /\ crashed' = (cmd[r].Transformation = "nil")
       ELSE /\ Q' = [Q EXCEPT ![l] = [pc |-> "finish", op |-> r]]
            /\ UNCHANGED <<count, crashed>>
    /\ UNCHANGED <<SaveDataEnabled, req, frame, srv, arg, currProc, currProcMux, resp, procIdx, order>>

\* start: a Command is received; if op.Result == nil, the call of
\* op.Transformation begins. Calling a nil func panics in the worker
\* goroutine, which ends the process.
Take(l, r) ==
    /\ Running
    /\ CanTake(l, r)
    /\ taken' = [taken EXCEPT ![l] = Append(@, r)]
    /\ pc' = [pc EXCEPT ![r] = "lock"]
    /\ IF NeedsCall(cmd[r])
       THEN /\ Q' = [Q EXCEPT ![l] = [pc |-> "call", op |-> r]]
            /\ count' = [count EXCEPT ![r].calls = @ + 1]
            /\ crashed' = (cmd[r].Transformation = "nil")
       ELSE /\ Q' = [Q EXCEPT ![l] = [pc |-> "finish", op |-> r]]
            /\ UNCHANGED <<count, crashed>>
    /\ UNCHANGED <<SaveDataEnabled, req, frame, srv, arg, currProc, currProcMux, resp, cmd, procIdx, order>>

\* start: op.Transformation(op.Config) returns; op.Result, op.Err are set.
Return(l) ==
    /\ Running
    /\ Q[l].pc = "call"
    /\ \E t \in TransformResults(cmd[Q[l].op].Config) :
          cmd' = [cmd EXCEPT ![Q[l].op].Result = t.img, ![Q[l].op].Err = t.err]
    /\ count' = [count EXCEPT ![Q[l].op].returns = @ + 1]
    /\ Q' = [Q EXCEPT ![l].pc = "finish"]
    /\ UNCHANGED <<SaveDataEnabled, req, frame, srv, arg, currProc, currProcMux, pc, resp, procIdx, crashed,
                   order, taken>>

FinishUnset(l) ==
    /\ Running
    /\ Q[l].pc = "finish"
    /\ Q' = [Q EXCEPT ![l].pc = "signal"]
    /\ UNCHANGED <<SaveDataEnabled, req, frame, srv, arg, currProc, currProcMux, pc, resp, cmd,
                   procIdx, crashed, count, order, taken>>

\* start: L.Lock(); op.Finished = true; L.Unlock()
Finish(l) ==
    /\ Running
    /\ Q[l].pc = "finish"
    /\ cmd' = [cmd EXCEPT ![Q[l].op].Finished = TRUE]
    /\ count' = [count EXCEPT ![Q[l].op].sets = @ + 1]
    /\ Q' = [Q EXCEPT ![l].pc = "signal"]
    /\ UNCHANGED <<SaveDataEnabled, req, frame, srv, arg, currProc, currProcMux, pc, resp, procIdx, crashed,
                   order, taken>>

SignalStopOnErr(l) ==
    /\ Running
    /\ Q[l].pc = "signal"
    /\ LET r == Q[l].op
       IN  /\ pc' = [pc EXCEPT ![r] = IF @ = "waiting" THEN "woken" ELSE @]
           /\ count' = [count EXCEPT ![r].signals = @ + 1]
           /\ Q' = [Q EXCEPT ![l] = IF cmd[r].Err # NilErr
                                    THEN [pc |-> "stopped", op |-> 0]
                                    ELSE NewQueue]
    /\ UNCHANGED <<SaveDataEnabled, req, frame, srv, arg, currProc, currProcMux, resp, cmd,
                   procIdx, crashed, order, taken>>

\* start: op.FinishedCond.Signal() wakes the submitter if it is parked in
\* Wait; the worker goes back to the channel.
Signal(l) ==
    /\ Running
    /\ Q[l].pc = "signal"
    /\ LET r == Q[l].op
       IN  /\ pc' = [pc EXCEPT ![r] = IF @ = "waiting" THEN "woken" ELSE @]
           /\ count' = [count EXCEPT ![r].signals = @ + 1]
    /\ Q' = [Q EXCEPT ![l] = NewQueue]
    /\ UNCHANGED <<SaveDataEnabled, req, frame, srv, arg, currProc, currProcMux, resp, cmd, procIdx, crashed,
                   order, taken>>

(* ------------------------------ specification ------------------------- *)

Next ==
    \/ \E n \in ProcNums : NewService(n)
    \/ \E r \in Reqs : Handle(r)
    \/ \E r \in Reqs : Loaded(r)
    \/ \E r \in Reqs : GetQueueLock(r)
    \/ \E r \in Reqs : GetQueueUnlock(r)
    \/ \E r \in Reqs : Check(r)
    \/ \E r \in Reqs : Callback(r)
    \/ \E l \in Lanes, r \in Reqs : Take(l, r)
    \/ \E l \in Lanes : Return(l)
    \/ \E l \in Lanes : Finish(l)
    \/ \E l \in Lanes : Signal(l)

Spec == Init /\ [][Next]_vars

\* Number of requests of a run of SpecWake.
WakeReq == 2

\* WakeReq requests of consecutive kinds of Workload, from any first kind.
InitWake ==
    /\ SaveDataEnabled = TRUE
    /\ \E first \in DOMAIN Workload :
          req = [r \in 1 .. WakeReq |-> Workload[((first + r - 2) % Len(Workload)) + 1]]
    /\ InitRest

\* The steps of the program and, beside them, the hypothetical return of a
\* Wait with no Signal. SpecWake has every step of the program and more: an
\* invariant of SpecWake is an invariant of the program with these requests,
\* while a state SpecWake reaches through SpuriousWake is one the program
\* reaches only under that hypothesis.
NextWake ==
    \/ Next
    \/ \E r \in Reqs : SpuriousWake(r)

SpecWake == InitWake /\ [][NextWake]_vars

(* ------------------------------ one request --------------------------- *)

\* The characters of the size strings of SpecReq: a digit, the separator,
\* another character.
SizeChars == {"5", "x", "a"}

\* The strings over SizeChars of at most n characters.
Strings(n) == UNION {[1 .. k -> SizeChars] : k \in 0 .. n}

\* The size strings the specification names.
S_50 == <<"5", "0">>
S_x50 == <<"x", "5", "0">>
S_50x50 == <<"5", "0", "x", "5", "0">>
S_abcx == <<"a", "b", "c", "x">>

\* The values of the "size" parameter of a request: absent, given once,
\* given twice.
SizeParams ==
    {<< >>, <<S_5x5, S_5x5>>}
        \cup {<<s>> : s \in Strings(MaxLen) \cup {S_50, S_x50, S_50x50, S_abcx}}

\* The values of the "save-data" parameter and of the Save-Data header.
SaveDataParams == {<< >>, <<S_off>>, <<S_hide>>, <<S_hide, S_hide>>}
SaveDataHeaders == {<< >>, <<S_on>>, <<S_off>>}

Urls == {U_png, U_raw, U_bad, U_void, U_err, U_nil, U_empty}

\* The values of the Accept header: absent, one format, a list with spaces,
\* a list with other white space around its formats, the empty string, two
\* values (the first one is read).
AcceptHeaders ==
    {<< >>, <<S_webp>>, <<S_accept>>,
     << <<"\t", "image/avif", "U+00A0", ",", "\n", "image/webp", "\r">> >>,
     << << >> >>, <<S_avif, S_webp>>}

\* The values of the X-Forwarded-Proto header: absent, one, two.
ProtoHeaders == {<< >>, <<S_https>>, <<S_https, S_http>>}

\* Every request over the sizes and the save-data values, with no Accept and
\* no X-Forwarded-Proto header (the routes that read no size are given none
\* or one); and every request over the values of these two headers, for an
\* absolute, a scheme-relative and a (nil, nil) URL.
AllRequests ==
    { rq \in [op : Ops, imgUrl : Urls, size : SizeParams, saveData : SaveDataParams,
              SaveData : SaveDataHeaders, Accept : {<< >>}, XForwardedProto : {<< >>}] :
        rq.op \in {"asis", "optimise"} => rq.size \in {<< >>, <<S_5x5>>} }
    \cup [op : Ops, imgUrl : {U_png, U_rel, U_nil}, size : {<<S_5x5>>}, saveData : {<< >>},
          SaveData : {<< >>, <<S_on>>}, Accept : AcceptHeaders, XForwardedProto : ProtoHeaders]

\* One request, any of AllRequests, with SaveDataEnabled set either way.
InitReq ==
    /\ SaveDataEnabled \in BOOLEAN
    /\ req \in [{1} -> AllRequests]
    /\ InitRest

SpecReq == InitReq /\ [][Next]_vars

\* A burst of requests on a fresh Service: Burst of them over MaxConn
\* connections, one to be resized and the others served as is.
Burst == 5

InitBurst ==
    /\ SaveDataEnabled = TRUE
    /\ req = [r \in 1 .. Burst |-> IF r = 1 THEN Workload[2] ELSE Workload[1]]
    /\ InitRest

SpecBurst == InitBurst /\ [][Next]_vars

\* Number of requests of a fair run.
LiveReq == 2

\* A fair run: the first LiveReq kinds of Workload, every goroutine that can
\* take a step of the program eventually takes it, and every transformation
\* call returns. No fairness for the arrival of requests, the return of
\* Load or the call of NewService.
InitLive ==
    /\ SaveDataEnabled = TRUE
    /\ req = [r \in 1 .. LiveReq |-> Workload[r]]
    /\ InitRest

Fairness ==
    /\ \A r \in 1 .. LiveReq :
          /\ WF_vars(GetQueueLock(r))
          /\ WF_vars(GetQueueUnlock(r))
          /\ WF_vars(Check(r))
          /\ WF_vars(Callback(r))
          /\ \A l \in 0 .. MaxProcs - 1 : WF_vars(l \in Lanes /\ Take(l, r))
    /\ \A l \in 0 .. MaxProcs - 1 :
          /\ WF_vars(l \in Lanes /\ Return(l))
          /\ WF_vars(l \in Lanes /\ Finish(l))
          /\ WF_vars(l \in Lanes /\ Signal(l))

SpecLive == InitLive /\ [][Next]_vars /\ Fairness

(* ------------------------------ properties ---------------------------- *)

Range(s) == {s[i] : i \in 1 .. Len(s)}

\* The place of x in a sequence without repetition that holds it.
Pos(s, x) == CHOOSE i \in 1 .. Len(s) : s[i] = x

\* The transformation call of r's Command has begun and not returned.
Executing(r) == count[r].calls > count[r].returns

\* The worker that took r's Command has gone on past it.
WorkerPast(r) == \E l \in Lanes : r \in Range(taken[l]) /\ Q[l].op # r

\* C1: the k-th request to leave getQueue (k = 0, 1, ...) is given lane
\* (L0 + k) mod N, L0 being the lane of the first, and any N consecutive
\* ones are given every lane once, whatever has completed meanwhile.
C1_RoundRobin ==
    /\ \A k \in 1 .. Len(order) :
          procIdx[order[k]] = (procIdx[order[1]] + (k - 1)) % LenQ
    /\ \A i \in 1 .. Len(order) :
          i + LenQ - 1 <= Len(order) =>
              {procIdx[order[j]] : j \in i .. i + LenQ - 1} = Lanes

\* Three requests on two lanes; the second is done while the first is not.
C1_Witness ==
    /\ LenQ = 2
    /\ Len(order) = 3
    /\ pc[order[2]] = "done"
    /\ pc[order[1]] # "done"

\* C2 as stated: of two Commands of one lane, the one that left getQueue
\* first is taken (begins execution) first.
C2_FifoBySubmission ==
    \A l \in Lanes : \A i, j \in 1 .. Len(taken[l]) :
        i < j => Pos(order, taken[l][i]) < Pos(order, taken[l][j])

\* C2 amended: a lane's worker takes only Commands that getQueue gave to its
\* lane, and every Command it took before the latest one is Finished and
\* signalled: on a lane, execution follows the order in which the channel
\* handed the Commands over.
C2_FifoByReceipt ==
    \A l \in Lanes :
        /\ \A i \in 1 .. Len(taken[l]) :
              /\ procIdx[taken[l][i]] = l
              /\ i < Len(taken[l]) =>
                    /\ cmd[taken[l][i]].Finished
                    /\ count[taken[l][i]].signals = 1
        /\ Q[l].op # 0 => Len(taken[l]) > 0 /\ Q[l].op = taken[l][Len(taken[l])]

\* A lane took two Commands in the reverse of their getQueue order.
C2_Witness ==
    \E l \in Lanes :
        /\ Len(taken[l]) >= 2
        /\ Pos(order, taken[l][1]) > Pos(order, taken[l][2])
        /\ cmd[taken[l][1]].Finished

\* C3: on no lane are two Commands inside their transformation call at
\* once, so at most len(Q) calls run at the same time.
C3_OneCallPerLane ==
    /\ \A l \in Lanes :
          Cardinality({r \in Reqs : procIdx[r] = l /\ Executing(r)}) <= 1
    /\ Cardinality({r \in Reqs : Executing(r)}) <= LenQ

\* Both lanes are inside a call while a third request is at the send.
C3_Witness ==
    /\ Cardinality({r \in Reqs : Executing(r)}) = 2
    /\ \E r \in Reqs : pc[r] = "send"

\* C4: a request has left the wait of AddAndWait, to call its callback or
\* having called it, only if its Command is Finished; this holds in the runs
\* of the program and also in those of SpecWake, under the hypothesis that a
\* Wait may return with no Signal and with Finished still false.
C4_CallbackOnlyWhenFinished ==
    \A r \in Reqs :
        (pc[r] = "callback" \/ count[r].callbacks > 0) => cmd[r] # NoCmd /\ cmd[r].Finished

\* Under the hypothesis of SpuriousWake: a request whose Wait returned while
\* Finished was false tested the flag, waited again, was woken by the Signal
\* and has run its callback, while the Wait of another request has just
\* returned with Finished false.
C4_Witness ==
    /\ \E r \in Reqs :
          /\ count[r].rewaits = 1
          /\ count[r].signals = 1
          /\ count[r].callbacks = 1
          /\ cmd[r].Finished
    /\ \E r \in Reqs : pc[r] = "woken" /\ ~cmd[r].Finished

\* C5: per Command, Finished is written once and stays true, one Signal is
\* issued, after the write, and the callback runs once.
C5_ExactlyOnce ==
    \A r \in Reqs :
        IF cmd[r] = NoCmd
        THEN count[r].sets = 0 /\ count[r].signals = 0 /\ count[r].callbacks = 0
        ELSE /\ count[r].sets <= 1
             /\ count[r].signals <= 1
             /\ count[r].callbacks <= 1
             /\ cmd[r].Finished <=> count[r].sets = 1
             /\ count[r].signals = 1 => count[r].sets = 1
             /\ pc[r] = "done" => count[r].callbacks = 1
             /\ WorkerPast(r) => count[r].sets = 1 /\ count[r].signals = 1

\* A request is done, its worker has gone on, each count is one.
C5_Witness ==
    \E r \in Reqs :
        /\ pc[r] = "done"
        /\ WorkerPast(r)
        /\ count[r].sets = 1 /\ count[r].signals = 1 /\ count[r].callbacks = 1

\* Some step of lane l: its worker receives, or goes on with its Command.
LaneStep(l) == (\E r \in Reqs : Take(l, r)) \/ Return(l) \/ Finish(l) \/ Signal(l)

\* C6: a Command with a nil Transformation and a Result set by its handler
\* keeps that Result and is never called; it has a lane from getQueue, is
\* taken by that lane's worker once the Commands the worker took before are
\* Finished, and is signalled once.
C6_PassThrough ==
    \A r \in Reqs :
        (cmd[r] # NoCmd /\ cmd[r].Transformation = "nil") =>
            /\ count[r].calls = 0
            /\ cmd[r].Result = Load(getImgUrl(req[r])).img
            /\ cmd[r].Result # NilImage
            /\ cmd[r].Err = NilErr
            /\ pc[r] \notin {"execOp", "getQueue"} =>
                  r \in Range(order) /\ procIdx[r] \in Lanes
            /\ \A l \in Lanes : \A i \in 1 .. Len(taken[l]) :
                  taken[l][i] = r =>
                      /\ l = procIdx[r]
                      /\ \A j \in 1 .. i - 1 : cmd[taken[l][j]].Finished
            /\ pc[r] = "done" => \E l \in Lanes : r \in Range(taken[l])
            /\ count[r].signals <= 1
            /\ WorkerPast(r) => count[r].signals = 1

\* A lane took an as-is Command second; it is done and was never called.
C6_Witness ==
    \E l \in Lanes :
        /\ Len(taken[l]) >= 2
        /\ cmd[taken[l][2]].Transformation = "nil"
        /\ pc[taken[l][2]] = "done"
        /\ WorkerPast(taken[l][2])
        /\ resp[taken[l][2]].status = 200

\* C7: what a transformation call returned, error or image, is what its own
\* Command holds, whatever the calls before it returned; and a lane with a
\* request at its channel can always take a step: no error stops a worker.
C7_ErrorKeptLaneRuns ==
    /\ \A r \in Reqs :
          (cmd[r] # NoCmd /\ count[r].returns = 1) =>
              [img |-> cmd[r].Result, err |-> cmd[r].Err] \in TransformResults(cmd[r].Config)
    /\ \A l \in Lanes :
          (\E r \in Reqs : pc[r] = "send" /\ procIdx[r] = l) => ENABLED LaneStep(l)

\* On one lane a Command ended with an error and the next one taken ended
\* with its image and no error.
C7_Witness ==
    \E l \in Lanes :
        /\ Len(taken[l]) >= 2
        /\ cmd[taken[l][1]].Err = TransformErr
        /\ pc[taken[l][2]] = "done"
        /\ cmd[taken[l][2]].Result = TransformOk(<< >>).img
        /\ cmd[taken[l][2]].Err = NilErr
        /\ resp[taken[l][2]].status = 200

\* C8: NewService fails exactly when procNum <= 0, and then there is no
\* Service; otherwise Q holds procNum lanes, each with its worker, in every
\* state that follows.
C8_NewService ==
    srv # "new" =>
        /\ srv = "error" <=> arg <= 0
        /\ srv = "error" => Q = << >> /\ \A r \in Reqs : pc[r] = "idle"
        /\ srv = "ok" =>
              /\ Lanes = 0 .. arg - 1
              /\ LenQ = arg
              /\ \A l \in Lanes : Q[l].pc \in {"recv", "call", "finish", "signal"}

\* Two lanes, after every request has been served.
C8_Witness ==
    /\ srv = "ok"
    /\ arg = 2
    /\ LenQ = 2
    /\ \A r \in Reqs : pc[r] = "done"
    /\ Len(order) >= 2

\* The size grammars, stated on the string: digits, at most one 'x' (just
\* one for fit), digits, and not empty.
AllDigits(s, a, b) == \A i \in a .. b : s[i] \in Digits

LooseSize(s) ==
    /\ Len(s) > 0
    /\ \/ AllDigits(s, 1, Len(s))
       \/ \E i \in 1 .. Len(s) :
             s[i] = "x" /\ AllDigits(s, 1, i - 1) /\ AllDigits(s, i + 1, Len(s))

StrictSize(s) ==
    \E i \in 1 .. Len(s) :
        s[i] = "x" /\ AllDigits(s, 1, i - 1) /\ AllDigits(s, i + 1, Len(s))

\* The request has no size, or one that is not in the grammar of its route.
BadSize(rq) ==
    /\ rq.op \in {"resize", "fit"}
    /\ \/ Len(rq.size) = 0
       \/ /\ Len(rq.size) = 1
          /\ IF rq.op = "resize" THEN ~LooseSize(rq.size[1]) ELSE ~StrictSize(rq.size[1])

\* The request has left no trace in the dispatcher.
Untouched(r) ==
    /\ cmd[r] = NoCmd
    /\ procIdx[r] = -1
    /\ r \notin Range(order)
    /\ currProcMux # r
    /\ \A l \in Lanes : r \notin Range(taken[l]) /\ Q[l].op # r

\* The cursor is where the n requests that went through getQueue left it,
\* one further while a request holds the mutex inside getQueue.
CursorAt(n) ==
    IF LenQ = 0
    THEN currProc = 0
    ELSE currProc = (n % LenQ) + (IF currProcMux = 0 THEN 0 ELSE 1)

\* C9: a resize or fit request with a missing or malformed size, and any
\* request with an empty imgUrl, is answered 400 with no Load, no Command,
\* and the cursor where it was.
C9_RejectedUntouched ==
    \A r \in Reqs :
        (pc[r] # "idle" /\ (BadSize(req[r]) \/ req[r].imgUrl = U_empty)) =>
            /\ pc[r] = "done"
            /\ resp[r].status = 400
            /\ count[r].loads = 0
            /\ Untouched(r)
            /\ CursorAt(Len(order))

\* A resize request with a malformed size has been answered.
C9_Witness ==
    \E r \in Reqs :
        /\ pc[r] = "done"
        /\ req[r].op = "resize"
        /\ req[r].size = <<S_abcx>>
        /\ req[r].imgUrl # U_empty
        /\ resp[r].status = 400

\* C10: a request whose Load call answered an error is answered 500 after
\* that one call, with no Command and the cursor where it was; while the
\* call is pending nothing is written and the dispatcher is untouched.
C10_LoadErrorUntouched ==
    \A r \in Reqs :
        (count[r].loads > 0 /\ Load(getImgUrl(req[r])).err # NilErr) =>
            /\ pc[r] \in {"load", "done"}
            /\ pc[r] = "load" => resp[r].status = 0
            /\ pc[r] = "done" => resp[r].status = 500
            /\ count[r].loads = 1
            /\ Untouched(r)
            /\ CursorAt(Len(order))

\* An as-is request whose Load failed has been answered.
C10_Witness ==
    \E r \in Reqs :
        /\ pc[r] = "done"
        /\ req[r].op = "asis"
        /\ req[r].imgUrl = U_err
        /\ count[r].loads = 1
        /\ resp[r].status = 500

\* C11, as claimed: once the callback of a Command has run, a Command with
\* an Err has given a 500 whose body is the error message, with no
\* Content-Length, no Cache-Control and no image bytes; a Command with no
\* Err has given the data of its Result as the body, with its length as
\* Content-Length.
C11_ErrOrData ==
    \A r \in Reqs :
        (cmd[r] # NoCmd /\ count[r].callbacks = 1) =>
            /\ cmd[r].Err # NilErr =>
                  /\ resp[r].status = 500
                  /\ resp[r].body = Text(<<"Error transforming image: ", cmd[r].Err>>)
                  /\ resp[r].ContentLength = << >>
                  /\ resp[r].CacheControl = << >>
            /\ cmd[r].Err = NilErr =>
                  /\ cmd[r].Result # NilImage
                  /\ resp[r].body = Bytes(cmd[r].Result.Data)
                  /\ resp[r].ContentLength = <<Itoa(Len(cmd[r].Result.Data))>>

\* A Command built from a loaded image finished with neither an Err nor a
\* Result; its callback has run and panicked, with no status, no body and
\* no Content-Length written.
C11_Witness ==
    \E r \in Reqs :
        /\ cmd[r] # NoCmd
        /\ cmd[r].Config.Src # NilImage
        /\ cmd[r].Finished
        /\ cmd[r].Err = NilErr
        /\ cmd[r].Result = NilImage
        /\ count[r].callbacks = 1
        /\ resp[r].panicked
        /\ resp[r].status = 0
        /\ resp[r].body = NoBody
        /\ resp[r].ContentLength = << >>

\* The request passes the checks made before the save-data test: an imgUrl,
\* and for resize and fit one size, in the grammar of the route.
Admitted(rq) ==
    /\ rq.imgUrl # U_empty
    /\ rq.op = "resize" => Len(rq.size) = 1 /\ LooseSize(rq.size[1])
    /\ rq.op = "fit" => Len(rq.size) = 1 /\ StrictSize(rq.size[1])

\* The hide override fires: a transforming route, the Save-Data header "on"
\* and the save-data parameter given once as "hide".
HideFires(rq) ==
    /\ rq.op \in {"resize", "fit", "optimise"}
    /\ Admitted(rq)
    /\ Len(rq.SaveData) > 0 /\ rq.SaveData[1] = S_on
    /\ rq.saveData = <<S_hide>>

\* C12: with the feature enabled, a request on which the hide override fires
\* is answered with the placeholder image, with no Load, no Command and the
\* cursor where it was.
C12_HideAndNothingElse ==
    \A r \in Reqs :
        (pc[r] # "idle" /\ SaveDataEnabled /\ HideFires(req[r])) =>
            /\ pc[r] = "done"
            /\ resp[r].status = 200
            /\ resp[r].body = Bytes(emptyGif)
            /\ resp[r].ContentLength = << >>
            /\ resp[r].CacheControl = << >>
            /\ count[r].loads = 0
            /\ Untouched(r)
            /\ CursorAt(Len(order))

\* A fit request with the override has been answered with the placeholder.
C12_Witness ==
    \E r \in Reqs :
        /\ SaveDataEnabled
        /\ req[r].op = "fit"
        /\ HideFires(req[r])
        /\ pc[r] = "done"
        /\ resp[r].body = Bytes(emptyGif)
        /\ count[r].loads = 0

\* The client asks for low quality: the Save-Data header is "on" and the
\* save-data parameter is not "off".
AsksLow(rq) ==
    /\ Len(rq.SaveData) > 0 /\ rq.SaveData[1] = S_on
    /\ rq.saveData # <<S_off>>

\* C13: the Quality in the TransformationConfig of a Command built for a
\* resize, fit or optimise request is LOW when the feature is enabled and
\* the client asks for it, and DEFAULT in every other case.
C13_Quality ==
    \A r \in Reqs :
        (cmd[r] # NoCmd /\ req[r].op # "asis") =>
            cmd[r].Config.Quality =
                IF SaveDataEnabled /\ AsksLow(req[r]) THEN LOW ELSE DEFAULT

\* A Command was built with LOW quality and its request served.
C13_Witness ==
    \E r \in Reqs :
        /\ SaveDataEnabled
        /\ req[r].SaveData = <<S_on>>
        /\ req[r].saveData = << >>
        /\ cmd[r] # NoCmd
        /\ cmd[r].Config.Quality = LOW
        /\ pc[r] = "done"

\* The request was refused for its size.
SizeRefused(r) ==
    /\ resp[r].status = 400
    /\ resp[r].body.kind = "text"
    /\ resp[r].body.msg \in {<<"size param is required">>,
                             <<"size param should be in format WxH">>}

\* C14: a resize request with one size value is refused for its size exactly
\* when the value is not in the loose grammar, a fit request exactly when it
\* is not in the strict one; "50", "x50" and "50x50" are in the loose grammar
\* and "abcx" is not, "50x50" is in the strict one and "50" is not.
C14_SizeGrammar ==
    /\ LooseSize(S_50) /\ LooseSize(S_x50) /\ LooseSize(S_50x50)
    /\ StrictSize(S_50x50) /\ ~StrictSize(S_50) /\ ~LooseSize(S_abcx)
    /\ \A r \in Reqs :
          (pc[r] # "idle" /\ Len(req[r].size) = 1) =>
              /\ req[r].op = "resize" => (SizeRefused(r) <=> ~LooseSize(req[r].size[1]))
              /\ req[r].op = "fit" => (SizeRefused(r) <=> ~StrictSize(req[r].size[1]))

\* A fit request with size "50" was refused.
C14_Witness ==
    \E r \in Reqs :
        /\ req[r].op = "fit"
        /\ req[r].size = <<S_50>>
        /\ pc[r] = "done"
        /\ SizeRefused(r)

\* The request has been answered with the bytes of an image.
ImageResponse(r) == pc[r] = "done" /\ resp[r].body.kind = "bytes"

\* The one Vary header of the feature's setting.
VaryOfFeature ==
    IF SaveDataEnabled THEN << <<"Accept, Save-Data">> >> ELSE << <<"Accept">> >>

\* C15, as claimed: every image response, of any of the four operations,
\* carries the Vary header of the feature's setting.
C15_VaryOnAll ==
    \A r \in Reqs : ImageResponse(r) => resp[r].Vary = VaryOfFeature

\* C15, amended: an image response of resize, fit or optimise, the
\* placeholder included, carries the Vary header of the feature's setting;
\* an image response of as-is carries no Vary header.
C15_VaryOnTransformed ==
    \A r \in Reqs :
        ImageResponse(r) =>
            /\ req[r].op # "asis" => resp[r].Vary = VaryOfFeature
            /\ req[r].op = "asis" => resp[r].Vary = << >>

\* With the feature disabled, a resize request got its image with
\* Vary: Accept.
C15_Witness ==
    \E r \in Reqs :
        /\ ~SaveDataEnabled
        /\ req[r].op = "resize"
        /\ ImageResponse(r)
        /\ resp[r].body = Bytes(OutData)
        /\ resp[r].Vary = << <<"Accept">> >>

\* C16, as claimed: with two lanes, the 1st, 3rd and 5th requests to leave
\* getQueue are given lane 0, the 2nd and 4th lane 1.
C16_OddOnLaneZero ==
    LenQ = 2 =>
        \A k \in 1 .. Len(order) :
            k <= 5 => procIdx[order[k]] = (k - 1) % 2

\* C16, amended: with two lanes, the 1st, 3rd and 5th requests to leave
\* getQueue are given lane 1, the 2nd and 4th lane 0: the cursor starts at 0
\* and getQueue increments it before reading it.
C16_OddOnLaneOne ==
    LenQ = 2 =>
        \A k \in 1 .. Len(order) :
            k <= 5 => procIdx[order[k]] = k % 2

\* Five requests have gone through getQueue on two lanes and been served.
C16_Witness ==
    /\ LenQ = 2
    /\ Len(order) = 5
    /\ \A k \in {1, 3, 5} : procIdx[order[k]] = 1
    /\ \A k \in {2, 4} : procIdx[order[k]] = 0
    /\ \A k \in 1 .. 5 : pc[order[k]] = "done"

\* A Finished Command holds what its call returned, or for a Command that
\* needed no call what its handler put in it; and no signal or callback
\* comes before Finished.
FinishedIsFinal ==
    \A r \in Reqs :
        cmd[r] # NoCmd =>
            /\ cmd[r].Finished =>
                  /\ count[r].calls = count[r].returns
                  /\ count[r].calls = 1 =>
                        [img |-> cmd[r].Result, err |-> cmd[r].Err]
                            \in TransformResults(cmd[r].Config)
                  /\ count[r].calls = 0 =>
                        cmd[r].Result = Load(getImgUrl(req[r])).img /\ cmd[r].Err = NilErr
            /\ (count[r].signals > 0 \/ count[r].callbacks > 0) => cmd[r].Finished

\* No step changes a Finished Command.
FinishedIsKept ==
    \A r \in Reqs : (cmd[r] # NoCmd /\ cmd[r].Finished) => cmd'[r] = cmd[r]

\* C17: Result and Err are written before Finished is set and before the
\* signal: a Finished Command holds its final Result and Err, which no later
\* step changes.
C17_WrittenBeforeFinished == []FinishedIsFinal /\ [][FinishedIsKept]_vars

\* A Command whose call returned an image is Finished and its callback has
\* written that image.
C17_Witness ==
    \E r \in Reqs :
        /\ cmd[r] # NoCmd
        /\ cmd[r].Finished
        /\ count[r].returns = 1
        /\ cmd[r].Result = TransformOk(<< >>).img
        /\ count[r].callbacks = 1
        /\ resp[r].body = Bytes(OutData)

\* C18: a Command whose transformation was called has a non-nil
\* Transformation and held no Result while the call ran; a Command with a
\* nil Transformation is never called and no worker has panicked; an as-is
\* request whose Load answered (nil, nil) has built no Command at all.
C18_NilNeverCalled ==
    /\ ~crashed
    /\ \A r \in Reqs :
          /\ cmd[r] # NoCmd =>
                /\ count[r].calls > 0 => cmd[r].Transformation # "nil"
                /\ cmd[r].Transformation = "nil" => count[r].calls = 0
                /\ Executing(r) => cmd[r].Result = NilImage /\ cmd[r].Err = NilErr
          /\ (pc[r] # "idle" /\ req[r].op = "asis" /\ req[r].imgUrl = U_nil) =>
                cmd[r] = NoCmd /\ count[r].calls = 0

\* An as-is request whose Load answered (nil, nil) is over, and the worker
\* has called the transformation of another request's Command.
C18_Witness ==
    \E r1, r2 \in Reqs :
        /\ req[r1].op = "asis"
        /\ req[r1].imgUrl = U_nil
        /\ pc[r1] = "done"
        /\ count[r1].loads = 1
        /\ cmd[r2] # NoCmd
        /\ count[r2].calls = 1
        /\ count[r2].returns = 1

\* The call of r's Command returned neither a Result nor an Err, and the
\* callback has run.
NoResultNoErr(r) ==
    /\ cmd[r] # NoCmd
    /\ count[r].returns = 1
    /\ cmd[r].Result = NilImage
    /\ cmd[r].Err = NilErr
    /\ count[r].callbacks = 1

\* C19, as claimed: a request whose transformation call returned neither a
\* Result nor an Err is answered with a 5xx status, and a lane with a request
\* at its channel can always take a step.
C19_NoResultIsServerError ==
    /\ \A r \in Reqs : NoResultNoErr(r) => resp[r].status \in 500 .. 599
    /\ \A l \in Lanes :
          (\E r \in Reqs : pc[r] = "send" /\ procIdx[r] = l) => ENABLED LaneStep(l)

\* The callback of such a request panicked with nothing written, and the
\* lane went on to serve the next Command it took.
C19_Witness ==
    \E l \in Lanes :
        /\ Len(taken[l]) >= 2
        /\ NoResultNoErr(taken[l][1])
        /\ resp[taken[l][1]].panicked
        /\ resp[taken[l][1]].status = 0
        /\ resp[taken[l][1]].body = NoBody
        /\ pc[taken[l][2]] = "done"
        /\ resp[taken[l][2]].status = 200

\* The cursor mutex is held only by a request inside getQueue.
MutexOnlyInGetQueue == currProcMux # 0 => pc[currProcMux] = "getQueue"

\* Whether a lane accepts a Command sent to it depends on that lane alone,
\* and a request can enter getQueue whenever the mutex is free, whatever the
\* lanes are doing.
LanesIndependent ==
    \A r \in Reqs :
        /\ pc[r] = "send" =>
              (ENABLED Take(procIdx[r], r) <=> Q[procIdx[r]].pc = "recv")
        /\ (pc[r] = "execOp" /\ currProcMux = 0) => ENABLED GetQueueLock(r)

\* The lane getQueue gave a request is the one it keeps: it stays at the send
\* while that lane's worker is busy, and no other lane takes its Command.
NoReassignment ==
    \A r \in Reqs :
        /\ procIdx[r] # -1 => procIdx'[r] = procIdx[r]
        /\ (pc[r] = "send" /\ Q[procIdx[r]].pc # "recv") => pc'[r] = "send"
        /\ \A l \in DOMAIN taken' : r \in Range(taken'[l]) => l = procIdx[r]

\* C20: the cursor mutex is held only inside getQueue; a lane accepts what
\* is sent to it whatever the other lanes are doing; a Command waits for the
\* lane it was given, even when other lanes are idle.
C20_LanesIndependent ==
    [](MutexOnlyInGetQueue /\ LanesIndependent) /\ [][NoReassignment]_vars

\* One lane is executing a Command and another request waits at that lane's
\* channel, while a Command that left getQueue later was executed on the
\* other lane, which is idle again, and has been answered.
C20_Witness ==
    \E s, t, u \in Reqs :
        /\ LenQ = 2
        /\ Executing(s)
        /\ pc[u] = "send"
        /\ procIdx[u] = procIdx[s]
        /\ procIdx[t] \in Lanes
        /\ procIdx[t] # procIdx[s]
        /\ Pos(order, s) < Pos(order, t)
        /\ count[t].returns = 1
        /\ count[t].callbacks = 1
        /\ pc[t] = "done"
        /\ Q[procIdx[t]].pc = "recv"

\* The request was answered with the placeholder, with no Load.
Placeholder(r) ==
    /\ pc[r] = "done"
    /\ resp[r].body.kind = "bytes"
    /\ resp[r].body.data = emptyGif
    /\ count[r].loads = 0

\* C21: a resize, fit or optimise request that passed validation is answered
\* with the placeholder exactly when the feature is enabled, the Save-Data
\* header is "on" and the save-data parameter is "hide"; in every other case
\* Load is called, and a Command is built when Load gives no error.
C21_HideExactly ==
    \A r \in Reqs :
        (pc[r] # "idle" /\ req[r].op # "asis" /\ Admitted(req[r])) =>
            /\ Placeholder(r) <=> (SaveDataEnabled /\ HideFires(req[r]))
            /\ ~(SaveDataEnabled /\ HideFires(req[r])) =>
                  /\ count[r].loads = 1
                  /\ frame[r] # NoFrame /\ frame[r].imgUrl = getImgUrl(req[r])
                  /\ (pc[r] # "load" /\ Load(getImgUrl(req[r])).err = NilErr) =>
                        cmd[r] # NoCmd

\* With the feature disabled, a request with the header "on" and the
\* parameter "hide" went on to Load and to a lane, and was answered.
C21_Witness ==
    \E r \in Reqs :
        /\ ~SaveDataEnabled
        /\ HideFires(req[r])
        /\ count[r].loads = 1
        /\ cmd[r] # NoCmd
        /\ count[r].callbacks = 1
        /\ pc[r] = "done"

\* The size value holds no digit: neither a width nor a height.
NoDimension(s) == \A i \in 1 .. Len(s) : s[i] \notin Digits

\* C22, as claimed: a resize request whose one size value holds neither a
\* width nor a height is answered 400, with no Load and no Command.
C22_NoDimensionRejected ==
    \A r \in Reqs :
        (pc[r] # "idle" /\ req[r].op = "resize" /\ Len(req[r].size) = 1
            /\ NoDimension(req[r].size[1])) =>
            /\ pc[r] = "done"
            /\ resp[r].status = 400
            /\ count[r].loads = 0
            /\ Untouched(r)

\* A resize request with the size "x" was loaded, its Command with that size
\* was called on a lane, and the request was answered with the result.
C22_Witness ==
    \E r \in Reqs :
        /\ req[r].op = "resize"
        /\ req[r].size = << <<"x">> >>
        /\ count[r].loads = 1
        /\ cmd[r] # NoCmd
        /\ cmd[r].Config.Size = <<"x">>
        /\ count[r].calls = 1
        /\ pc[r] = "done"
        /\ resp[r].status = 200

\* C23: on a constructed Service, while no request holds the cursor mutex
\* currProc is a lane index, 0 .. N - 1; inside getQueue it is one more than
\* the index it was, 1 .. N; and every lane getQueue has returned is a lane of
\* the pool.
C23_CursorInRange ==
    srv = "ok" =>
        /\ currProcMux = 0 => currProc \in 0 .. LenQ - 1
        /\ currProcMux # 0 => currProc \in 1 .. LenQ
        /\ \A r \in Reqs : procIdx[r] # -1 => procIdx[r] \in Lanes

\* A pool of one lane, three requests through getQueue, the mutex free.
C23_Witness ==
    /\ srv = "ok"
    /\ LenQ = 1
    /\ Len(order) = 3
    /\ currProcMux = 0
    /\ currProc = 0
    /\ \A k \in 1 .. 3 : procIdx[order[k]] = 0

\* The request is inside execOp: past the handler, before the callback.
InExecOp(r) ==
    pc[r] \in {"execOp", "getQueue", "send", "lock", "waiting", "woken", "callback"}

\* A step of a goroutine inside execOp or of a lane's worker.
ProgramStep ==
    \/ \E r \in Reqs : GetQueueLock(r) \/ GetQueueUnlock(r) \/ Check(r) \/ Callback(r)
    \/ \E l \in Lanes : LaneStep(l)

\* While a request is inside execOp some goroutine can take a step: the
\* request itself, or the worker a parked or sending submitter waits for.
NoDeadlock ==
    (\E r \in Reqs : InExecOp(r)) => ENABLED ProgramStep

\* The Command of r was taken by its lane, is Finished, and its callback ran.
Served(r) ==
    /\ procIdx[r] \in Lanes
    /\ r \in Range(taken[procIdx[r]])
    /\ cmd[r].Finished
    /\ count[r].callbacks = 1
    /\ pc[r] = "done"

\* C24: in a fair run every request that calls execOp is eventually taken by
\* its lane, Finished and called back, and no state with a request inside
\* execOp is without a step to take.
C24_EventuallyServed ==
    /\ \A r \in 1 .. LiveReq : (pc[r] = "execOp") ~> Served(r)
    /\ []NoDeadlock

\* The worker has set Finished and signalled while the submitter has not yet
\* made its first test of Finished; another request has been served.
C24_Witness ==
    \E r1, r2 \in Reqs :
        /\ pc[r1] = "lock"
        /\ cmd[r1].Finished
        /\ count[r1].signals = 1
        /\ cmd[r2] # NoCmd
        /\ Served(r2)

\* The formats of a Command's config are the pieces of the first Accept
\* value, with no white space left at either end of a piece.
FormatsTrimmed(r) ==
    cmd[r] # NoCmd =>
        \A i \in 1 .. Len(cmd[r].Config.SupportedFormats) :
            LET f == cmd[r].Config.SupportedFormats[i]
            IN  Len(f) > 0 => ~IsSpace(f[1]) /\ ~IsSpace(f[Len(f)])

\* The request was answered 200 with the data of a Result whose MIME type
\* is known.
SuccessWithMime(r) ==
    /\ pc[r] = "done"
    /\ cmd[r] # NoCmd
    /\ count[r].callbacks = 1
    /\ resp[r].status = 200
    /\ cmd[r].Result # NilImage
    /\ Len(cmd[r].Result.MimeType) > 0

\* C25, as claimed: every successful response for a Result with a known MIME
\* type, as-is included, carries that type as its one Content-Type value.
C25_ContentTypeOnce ==
    \A r \in Reqs :
        SuccessWithMime(r) => resp[r].ContentType = <<cmd[r].Result.MimeType>>

\* An as-is request for an image with a MIME type was answered with two
\* Content-Type values.
C25_Witness ==
    \E r \in Reqs :
        /\ req[r].op = "asis"
        /\ SuccessWithMime(r)
        /\ resp[r].body = Bytes(GoodData)
        /\ resp[r].ContentType = <<S_png, S_png>>

====
